---- MODULE Spec2Model ----
(***************************************************************************)
(* A model of dasbus/typing.py: the type-hint compiler (DBusType) and the  *)
(* variant walkers (VariantUnpacker, VariantUnwrapper, UnixFDSwap) with    *)
(* the two fd-list wrappers.                                               *)
(*                                                                         *)
(* A Python str is a sequence of one-character strings.  A GLib Variant    *)
(* and a native Python value share one record shape                        *)
(*     [tag, sig, val, kids, ref]                                          *)
(* tag "variant": a Variant object; sig is its type string, val its scalar *)
(*                payload, kids its children (dictionary children are the  *)
(*                dict entries, each with the two children key and value), *)
(*                ref is <<path>> for an object of the input variant and   *)
(*                <<>> for an object built during the call;                *)
(* tag "val":     a Python scalar;    tag "tuple" / "list": a Python       *)
(* tuple / list of kids;  tag "dict": a Python dict, kids are its items in *)
(* insertion order, each a "pair" with kids <<key, value>>.                *)
(***************************************************************************)
EXTENDS Integers, Sequences, FiniteSets, TLC

VARIABLES
    op,         \* the call that produced the current results ("idle": none)
    variant,    \* the variant the caller passes in
    passed,     \* does the caller pass its fd list (TRUE) or None (FALSE)
    fdlist,     \* the caller's fd list at the time of the call
    swapfn,     \* the swapping function given to UnixFDSwap.apply
    heap,       \* the list objects: the caller's list, a list made by the call
    retlist,    \* the list object a wrapper returned ("none" if it returns none)
    sent,       \* the variant produced by the outbound wrapper
    result,     \* the value returned by the last call
    calls,      \* arguments of the calls of the swapping function, in order
    visited,    \* refs of the variants given to _process_variant, in order
    built,      \* number of variants created by get_variant
    hint,       \* the type hint given to get_dbus_type
    dbus        \* outcome of get_dbus_type

vars == <<op, variant, passed, fdlist, swapfn, heap, retlist, sent, result,
          calls, visited, built, hint, dbus>>

(***************************************************************************)
(* Bounds of the model.                                                    *)
(***************************************************************************)
MaxNodes == 3       \* nodes of an input variant, dictionary keys not counted
MaxList == 2        \* length of a caller's fd list
MaxHintNodes == 4   \* nodes of a type hint built from the core hints

Handles == {0, 1}
Strs == {7}

(***************************************************************************)
(* Python str operations on signatures.                                    *)
(***************************************************************************)
Contains(s, c) == \E i \in DOMAIN s : s[i] = c

StartsWith(s, p) ==
    /\ Len(s) >= Len(p)
    /\ \A i \in DOMAIN p : s[i] = p[i]

RECURSIVE Concat(_)
Concat(ss) == IF ss = <<>> THEN <<>> ELSE Head(ss) \o Concat(Tail(ss))

(***************************************************************************)
(* Records.                                                                *)
(***************************************************************************)
Node(tag, sig, val, kids, ref) ==
    [tag |-> tag, sig |-> sig, val |-> val, kids |-> kids, ref |-> ref]

NewVariant(sig, val, kids) == Node("variant", sig, val, kids, <<>>)
PyVal(x) == Node("val", <<>>, x, <<>>, <<>>)
PyTuple(items) == Node("tuple", <<>>, 0, items, <<>>)
PyList(items) == Node("list", <<>>, 0, items, <<>>)
PyDict(items) == Node("dict", <<>>, 0, items, <<>>)
PyPair(k, v) == Node("pair", <<>>, 0, <<k, v>>, <<>>)

Leaf(c, x) == NewVariant(<<c>>, x, <<>>)
Wrapper(inner) == NewVariant(<<"v">>, 0, <<inner>>)
DictEntry(k, v) == NewVariant(<<"{">> \o k.sig \o v.sig \o <<"}">>, 0, <<k, v>>)
TupleOf(kids) ==
    NewVariant(<<"(">> \o Concat([i \in DOMAIN kids |-> kids[i].sig]) \o <<")">>,
               0, kids)
ArrayOf(elemsig, kids) == NewVariant(<<"a">> \o elemsig, 0, kids)

(***************************************************************************)
(* The input variants: every well-typed variant of at most n nodes over    *)
(* the leaves 'h' and 's'.  GLib keeps an array of dict entries as it was  *)
(* built or received, so a dictionary may hold the same key more than once.*)
(***************************************************************************)
Leaves == {Leaf("h", x) : x \in Handles} \cup {Leaf("s", x) : x \in Strs}

RECURSIVE Size(_), SizeAll(_)
Size(n) == IF n.sig[1] = "{" THEN Size(n.kids[2]) ELSE 1 + SizeAll(n.kids)
SizeAll(kids) == IF kids = <<>> THEN 0 ELSE Size(Head(kids)) + SizeAll(Tail(kids))

SameSig(f) == \A i \in DOMAIN f : f[i].sig = f[1].sig

\* The sequences over `pool` of at most n nodes in all.
RECURSIVE Forests(_, _)
Forests(pool, n) ==
    IF n < 1 THEN {<<>>}
    ELSE {<<>>} \cup
         UNION {{<<t>> \o f : f \in Forests(pool, n - Size(t))} :
                  t \in {x \in pool : Size(x) <= n}}

\* The variants whose children come from `sub`, n nodes at most.
TupleInputs(sub, n) == {TupleOf(f) : f \in Forests(sub, n - 1)}
ArrayInputs(sub, n) ==
    {ArrayOf(<<c>>, <<>>) : c \in {"h", "s"}}
    \cup {ArrayOf(f[1].sig, f) :
            f \in {g \in Forests(sub, n - 1) : g # <<>> /\ SameSig(g)}}
DictInputs(sub, n) ==
    {ArrayOf(f[1].sig, f) :
       f \in {g \in Forests({DictEntry(k, v) : k \in Leaves, v \in sub}, n - 1) :
                g # <<>> /\ SameSig(g)}}
WrapperInputs(sub) == {Wrapper(t) : t \in sub}

RECURSIVE Variants(_)
Variants(n) ==
    IF n < 1 THEN {}
    ELSE LET sub == Variants(n - 1)
         IN  Leaves \cup WrapperInputs(sub) \cup TupleInputs(sub, n)
                    \cup ArrayInputs(sub, n) \cup DictInputs(sub, n)

IsInput(v) ==
    LET sub == Variants(MaxNodes - 1)
    IN  \/ v \in Leaves
        \/ v \in WrapperInputs(sub)
        \/ v \in TupleInputs(sub, MaxNodes)
        \/ v \in ArrayInputs(sub, MaxNodes)
        \/ v \in DictInputs(sub, MaxNodes)

(***************************************************************************)
(* Object identity: the objects of the variant given to a call carry their *)
(* path from the root; Plain forgets which objects a value is made of.     *)
(***************************************************************************)
RECURSIVE Label(_, _)
Label(v, path) ==
    [v EXCEPT !.ref = <<path>>,
              !.kids = [i \in DOMAIN v.kids |-> Label(v.kids[i], Append(path, i))]]

RECURSIVE Plain(_)
Plain(x) ==
    [x EXCEPT !.ref = <<>>,
              !.kids = [i \in DOMAIN x.kids |-> Plain(x.kids[i])]]

NoValue == Node("none", <<>>, 0, <<>>, <<>>)

(***************************************************************************)
(* Variant(type_string, value): the variant of the given signature built   *)
(* from a native value.  A value for 'v' is a Variant object and is kept.  *)
(***************************************************************************)
RECURSIVE CloseAt(_, _, _)
\* index of the bracket closing the one opened before position i
CloseAt(s, i, depth) ==
    IF s[i] \in {"(", "{"} THEN CloseAt(s, i + 1, depth + 1)
    ELSE IF s[i] \in {")", "}"}
         THEN IF depth = 0 THEN i ELSE CloseAt(s, i + 1, depth - 1)
         ELSE CloseAt(s, i + 1, depth)

RECURSIVE FirstTypeLen(_)
\* length of the complete type a signature starts with
FirstTypeLen(s) ==
    IF s[1] = "a" THEN 1 + FirstTypeLen(Tail(s))
    ELSE IF s[1] \in {"(", "{"} THEN CloseAt(s, 2, 0)
    ELSE 1

RECURSIVE SplitTypes(_)
SplitTypes(s) ==
    IF s = <<>> THEN <<>>
    ELSE LET n == FirstTypeLen(s)
         IN  <<SubSeq(s, 1, n)>> \o SplitTypes(SubSeq(s, n + 1, Len(s)))

RECURSIVE BuildVariant(_, _)
BuildVariant(type_string, value) ==
    IF type_string[1] = "("
    THEN LET items == SplitTypes(SubSeq(type_string, 2, Len(type_string) - 1))
         IN  NewVariant(type_string, 0,
                        [i \in DOMAIN value.kids |-> BuildVariant(items[i], value.kids[i])])
    ELSE IF StartsWith(type_string, <<"a", "{">>)
    THEN LET entry == Tail(type_string)
             ksig == <<type_string[3]>>
             vsig == SubSeq(type_string, 4, Len(type_string) - 1)
         IN  NewVariant(type_string, 0,
                        [i \in DOMAIN value.kids |->
                            NewVariant(entry, 0,
                                       <<BuildVariant(ksig, value.kids[i].kids[1]),
                                         BuildVariant(vsig, value.kids[i].kids[2])>>)])
    ELSE IF type_string[1] = "a"
    THEN NewVariant(type_string, 0,
                    [i \in DOMAIN value.kids |->
                        BuildVariant(Tail(type_string), value.kids[i])])
    ELSE IF type_string[1] = "v"
    THEN NewVariant(type_string, 0, <<value>>)
    ELSE NewVariant(type_string, value.val, <<>>)

\* get_variant with a type string: Variant(type_string, value)
get_variant(type_string, value) == BuildVariant(type_string, value)

(***************************************************************************)
(* The swapping functions.  A call state st holds the list objects and     *)
(* what the call has done so far.                                          *)
(***************************************************************************)
SwapFn(tbl) == [kind |-> "fn", tbl |-> tbl, list |-> "none"]
get_index(list) == [kind |-> "get_index", tbl |-> <<>>, list |-> list]
get_handler(list) == [kind |-> "get_handler", tbl |-> <<>>, list |-> list]

StartState(lists) ==
    [heap |-> lists, calls |-> <<>>, visited |-> <<>>, built |-> 0, err |-> FALSE]

Ret(val, st) == [val |-> val, st |-> st]

LastIndexOffByOne(indices) == Len(indices)

\* len(indices) - 1
LastIndex(indices) == Len(indices) - 1

CallSwap(swap, fd, st) ==
    LET called == [st EXCEPT !.calls = Append(@, fd)]
    IN  IF swap.kind = "get_index"
        THEN \* indices.append(fd_handler); return len(indices) - 1
             LET appended == [called EXCEPT !.heap[swap.list] = Append(@, fd)]
             IN  Ret(PyVal(LastIndex(appended.heap[swap.list])), appended)
        ELSE IF swap.kind = "get_handler"
        THEN \* return indices[fd_index]; an index out of range raises IndexError
             IF fd + 1 \in DOMAIN st.heap[swap.list]
             THEN Ret(PyVal(st.heap[swap.list][fd + 1]), called)
             ELSE Ret(PyVal(0), [called EXCEPT !.err = TRUE])
        ELSE Ret(PyVal(swap.tbl[fd]), called)

(***************************************************************************)
(* VariantUnpacking and its three subclasses.                              *)
(***************************************************************************)
RECURSIVE ProcessVariant(_, _, _, _), ProcessChildren(_, _, _, _),
          ProcessEntries(_, _, _, _, _), RecreateVariant(_, _, _)

NoSwap == SwapFn(<<>>)

DictSetKeepsFirst(items, key, value) ==
    IF \E i \in DOMAIN items : items[i].kids[1] = key
    THEN items
    ELSE Append(items, PyPair(key, value))

DictSetAppends(items, key, value) == Append(items, PyPair(key, value))

\* result[key] = value
DictSet(items, key, value) ==
    IF \E i \in DOMAIN items : items[i].kids[1] = key
    THEN [i \in DOMAIN items |->
            IF items[i].kids[1] = key THEN PyPair(key, value) ELSE items[i]]
    ELSE Append(items, PyPair(key, value))

NothingToSwapNegated(type_string) ==
    Contains(type_string, "h") /\ ~Contains(type_string, "v")

\* 'h' not in type_string and 'v' not in type_string
NothingToSwap(type_string) ==
    ~Contains(type_string, "h") /\ ~Contains(type_string, "v")

UnwrapperDescends(v, st) ==
    ProcessVariant("VariantUnwrapper", v.kids[1], NoSwap, st)

\* VariantUnwrapper._handle_variant
UnwrapperHandleVariant(v, st) == Ret(v.kids[1], st)

\* VariantUnpacking._handle_value
UnpackingHandleValue(v, st) == Ret(PyVal(v.val), st)

SwapHandleValueUnpacks(v, swap, st) == Ret(PyVal(v.val), st)

\* UnixFDSwap._handle_value
SwapHandleValue(v, swap, st) ==
    IF v.sig = <<"h">> THEN CallSwap(swap, v.val, st)
    ELSE Ret(PyVal(v.val), st)

HandleTuple(cls, v, swap, st) ==
    LET r == ProcessChildren(cls, v.kids, swap, st)
    IN  Ret(PyTuple(r.val), r.st)

HandleDictionary(cls, v, swap, st) ==
    LET r == ProcessEntries(cls, v.kids, swap, st, <<>>)
    IN  Ret(PyDict(r.val), r.st)

HandleArray(cls, v, swap, st) ==
    LET r == ProcessChildren(cls, v.kids, swap, st)
    IN  Ret(PyList(r.val), r.st)

HandleVariantNotOverridden(cls, v, swap, st) ==
    IF cls = "VariantUnwrapper" THEN UnwrapperHandleVariant(v, st)
    ELSE ProcessVariant(cls, v.kids[1], swap, st)

HandleVariant(cls, v, swap, st) ==
    IF cls = "VariantUnwrapper" THEN UnwrapperHandleVariant(v, st)
    ELSE IF cls = "UnixFDSwap" THEN RecreateVariant(v.kids[1], swap, st)
    ELSE ProcessVariant(cls, v.kids[1], swap, st)

HandleValue(cls, v, swap, st) ==
    IF cls = "UnixFDSwap" THEN SwapHandleValue(v, swap, st)
    ELSE UnpackingHandleValue(v, st)

ProcessVariant(cls, v, swap, st0) ==
    LET st == [st0 EXCEPT !.visited = Append(@, v.ref[1])]
        type_string == v.sig
    IN  IF StartsWith(type_string, <<"(">>) THEN HandleTuple(cls, v, swap, st)
        ELSE IF StartsWith(type_string, <<"a", "{">>) THEN HandleDictionary(cls, v, swap, st)
        ELSE IF StartsWith(type_string, <<"a">>) THEN HandleArray(cls, v, swap, st)
        ELSE IF StartsWith(type_string, <<"v">>) THEN HandleVariant(cls, v, swap, st)
        ELSE HandleValue(cls, v, swap, st)

ProcessChildren(cls, kids, swap, st) ==
    IF kids = <<>> THEN Ret(<<>>, st)
    ELSE LET first == ProcessVariant(cls, Head(kids), swap, st)
             rest == ProcessChildren(cls, Tail(kids), swap, first.st)
         IN  Ret(<<first.val>> \o rest.val, rest.st)

ProcessEntries(cls, kids, swap, st, items) ==
    IF kids = <<>> THEN Ret(items, st)
    ELSE LET entry == Head(kids)
             key == ProcessVariant(cls, entry.kids[1], swap, st)
             value == ProcessVariant(cls, entry.kids[2], swap, key.st)
         IN  ProcessEntries(cls, Tail(kids), swap, value.st,
                            DictSet(items, key.val, value.val))

RecreateVariant(v, swap, st) ==
    LET type_string == v.sig
    IN  IF NothingToSwap(type_string) THEN Ret(v, st)
        ELSE LET value == ProcessVariant("UnixFDSwap", v, swap, st)
             IN  Ret(get_variant(type_string, value.val),
                     [value.st EXCEPT !.built = @ + 1])

VariantUnpackerApply(v) == ProcessVariant("VariantUnpacker", v, NoSwap, StartState(<<>>))
VariantUnwrapperApply(v) == ProcessVariant("VariantUnwrapper", v, NoSwap, StartState(<<>>))
unwrap_variant(v) == VariantUnwrapperApply(v)
UnixFDSwapApply(v, swap, st) == RecreateVariant(v, swap, st)

\* indices = fdlist or []
Indices(given, list) == IF given /\ list # <<>> THEN "caller" ELSE "fresh"

variant_replace_handles_with_fdlist_indices(v, given, lists) ==
    LET indices == Indices(given, lists.caller)
        r == UnixFDSwapApply(v, get_index(indices), StartState(lists))
    IN  [val |-> r.val, st |-> r.st, list |-> indices]

variant_replace_fdlist_indices_with_handles(v, list, lists) ==
    UnixFDSwapApply(v, get_handler(list), StartState(lists))

(***************************************************************************)
(* The calls.                                                              *)
(***************************************************************************)
FdLists == UNION {[1..n -> Handles] : n \in 0..MaxList}
Lists(caller) == [caller |-> caller, fresh |-> <<>>]
Identity == [h \in Handles |-> h]

Apply(f) ==
    /\ op = "idle"
    /\ LET r == UnixFDSwapApply(Label(variant, <<>>), SwapFn(f), StartState(heap))
       IN  /\ op' = "swapped"
           /\ swapfn' = f
           /\ result' = r.val
           /\ calls' = r.st.calls
           /\ visited' = r.st.visited
           /\ built' = r.st.built
    /\ UNCHANGED <<variant, passed, fdlist, heap, retlist, sent, hint, dbus>>

ReplaceHandles(given, list) ==
    /\ op = "idle"
    /\ LET r == variant_replace_handles_with_fdlist_indices(
                    Label(variant, <<>>), given, Lists(list))
       IN  /\ op' = "out"
           /\ passed' = given
           /\ fdlist' = list
           /\ heap' = r.st.heap
           /\ retlist' = r.list
           /\ sent' = r.val
           /\ result' = r.val
           /\ calls' = r.st.calls
           /\ visited' = r.st.visited
           /\ built' = r.st.built
    /\ UNCHANGED <<variant, swapfn, hint, dbus>>

\* the receiving side: the variant and the list produced by ReplaceHandles
ReplaceIndicesBack ==
    /\ op = "out"
    /\ LET r == variant_replace_fdlist_indices_with_handles(
                    Label(Plain(sent), <<>>), retlist, heap)
       IN  /\ op' = IF r.st.err THEN "raised" ELSE "back"
           /\ result' = IF r.st.err THEN NoValue ELSE r.val
           /\ calls' = r.st.calls
           /\ visited' = r.st.visited
           /\ built' = r.st.built
    /\ UNCHANGED <<variant, passed, fdlist, swapfn, heap, retlist, sent, hint, dbus>>

\* a received variant with a received list
ReplaceIndices(list) ==
    /\ op = "idle"
    /\ LET r == variant_replace_fdlist_indices_with_handles(
                    Label(variant, <<>>), "caller", Lists(list))
       IN  /\ op' = IF r.st.err THEN "raised" ELSE "in"
           /\ passed' = TRUE
           /\ fdlist' = list
           /\ heap' = r.st.heap
           /\ result' = IF r.st.err THEN NoValue ELSE r.val
           /\ calls' = r.st.calls
           /\ visited' = r.st.visited
           /\ built' = r.st.built
    /\ UNCHANGED <<variant, swapfn, retlist, sent, hint, dbus>>

Unpack ==
    /\ op = "idle"
    /\ LET r == VariantUnpackerApply(Label(variant, <<>>))
       IN  /\ op' = "unpacked"
           /\ result' = r.val
           /\ visited' = r.st.visited
    /\ UNCHANGED <<variant, passed, fdlist, swapfn, heap, retlist, sent, calls,
                   built, hint, dbus>>

Unwrap ==
    /\ op = "idle"
    /\ LET r == unwrap_variant(Label(variant, <<>>))
       IN  /\ op' = "unwrapped"
           /\ result' = r.val
           /\ visited' = r.st.visited
    /\ UNCHANGED <<variant, passed, fdlist, swapfn, heap, retlist, sent, calls,
                   built, hint, dbus>>

(***************************************************************************)
(* Type hints and DBusType.  A hint is a record of the same shape: tag is  *)
(* the name of the basic type or of the generic origin, kids the type      *)
(* arguments.  "Unknown" stands for any hint that is neither.              *)
(***************************************************************************)
Hint(name, args) == Node(name, <<>>, 0, args, <<>>)
NoHint == Hint("none", <<>>)
NoDBus == [done |-> FALSE, raised |-> FALSE, sig |-> <<>>]

\* DBusType._basic_type_mapping
basic_type_mapping ==
    [Bool |-> "b", Str |-> "s", Double |-> "d", Int |-> "i", Byte |-> "y",
     Int16 |-> "n", UInt16 |-> "q", Int32 |-> "i", UInt32 |-> "u", Int64 |-> "x",
     UInt64 |-> "t", UnixFD |-> "h", ObjPath |-> "o", Variant |-> "v"]

container_type_mapping_no_array ==
    <<[base |-> "Tuple", format |-> <<"(", "%s", ")">>],
      [base |-> "List", format |-> <<"a", "%s">>],
      [base |-> "Dict", format |-> <<"{", "%s", "}">>]>>

\* DBusType._container_type_mapping, in the order of its definition
container_type_mapping ==
    <<[base |-> "Tuple", format |-> <<"(", "%s", ")">>],
      [base |-> "List", format |-> <<"a", "%s">>],
      [base |-> "Dict", format |-> <<"a", "{", "%s", "}">>]>>

\* container % text
RECURSIVE Format(_, _)
Format(container, text) ==
    IF container = <<>> THEN <<>>
    ELSE (IF Head(container) = "%s" THEN text ELSE <<Head(container)>>)
         \o Format(Tail(container), text)

\* the origin of the hint is the base type
is_base_type(type_hint, base_type) == type_hint.tag = base_type

get_type_arguments(type_hint) == type_hint.kids

is_basic_type(type_hint) == type_hint.tag \in DOMAIN basic_type_mapping

get_basic_type(type_hint) == basic_type_mapping[type_hint.tag]

\* index of the first base type of the mapping the hint has, 0 for None
get_container_base_type(type_hint) ==
    IF \E i \in DOMAIN container_type_mapping :
          is_base_type(type_hint, container_type_mapping[i].base)
    THEN CHOOSE i \in DOMAIN container_type_mapping :
            /\ is_base_type(type_hint, container_type_mapping[i].base)
            /\ \A j \in 1..(i - 1) :
                  ~is_base_type(type_hint, container_type_mapping[j].base)
    ELSE 0

is_container_type(type_hint) == get_container_base_type(type_hint) # 0

check_only_containers(type_hint) ==
    ~is_container_type(get_type_arguments(type_hint)[1])

\* TRUE if the check passes, FALSE if it raises TypeError
check_if_valid_dictionary(type_hint) ==
    LET key == get_type_arguments(type_hint)[1]
    IN  ~(is_container_type(key) \/ key.tag = "Variant")

Returned(sig) == [done |-> TRUE, raised |-> FALSE, sig |-> sig]
Raised == [done |-> TRUE, raised |-> TRUE, sig |-> <<>>]

RECURSIVE get_dbus_representation(_)
get_container_type(type_hint) ==
    LET basetype == get_container_base_type(type_hint)
        args == get_type_arguments(type_hint)
    IN  IF container_type_mapping[basetype].base = "Dict"
           /\ ~check_if_valid_dictionary(type_hint)
        THEN Raised
        ELSE LET container == container_type_mapping[basetype].format
                 items == [i \in DOMAIN args |-> get_dbus_representation(args[i])]
             IN  IF \E i \in DOMAIN items : items[i].raised THEN Raised
                 ELSE Returned(Format(container,
                                      Concat([i \in DOMAIN items |-> items[i].sig])))

get_dbus_representation(type_hint) ==
    IF is_basic_type(type_hint) THEN Returned(<<get_basic_type(type_hint)>>)
    ELSE IF is_container_type(type_hint) THEN get_container_type(type_hint)
    ELSE Raised

get_dbus_type(type_hint) == get_dbus_representation(type_hint)

\* The hints given to get_dbus_type: every hint of at most MaxHintNodes nodes
\* over the core hints, every basic type, and every basic type as the
\* element of a list and as the key and value of a dictionary.
BasicHints == {Hint(n, <<>>) : n \in DOMAIN basic_type_mapping}
CoreHints == {Hint(n, <<>>) : n \in {"Str", "UnixFD", "Variant", "Unknown"}}

RECURSIVE HintSize(_)
HintSize(h) ==
    IF h.kids = <<>> THEN 1
    ELSE IF Len(h.kids) = 1 THEN 1 + HintSize(h.kids[1])
    ELSE 1 + HintSize(h.kids[1]) + HintSize(h.kids[2])

RECURSIVE Hints(_)
Hints(n) ==
    IF n < 1 THEN {}
    ELSE LET sub == Hints(n - 1)
             pairs == {<<x, y>> : x \in sub, y \in sub}
             fits == {xy \in pairs : HintSize(xy[1]) + HintSize(xy[2]) < n}
         IN  CoreHints
             \cup {Hint("Tuple", <<>>)}
             \cup {Hint("Tuple", <<x>>) : x \in sub}
             \cup {Hint("Tuple", xy) : xy \in fits}
             \cup {Hint("List", <<x>>) : x \in sub}
             \cup {Hint("Dict", xy) : xy \in fits}

IsHint(h) ==
    \/ h \in BasicHints
    \/ h \in Hints(MaxHintNodes)
    \/ h \in {Hint("List", <<x>>) : x \in BasicHints}
    \/ h \in {Hint("Dict", <<x, y>>) : x \in BasicHints, y \in BasicHints}

GetDbusType ==
    /\ ~dbus.done
    /\ hint # NoHint
    /\ dbus' = get_dbus_type(hint)
    /\ UNCHANGED <<op, variant, passed, fdlist, swapfn, heap, retlist, sent, result,
                   calls, visited, built, hint>>

Init ==
    /\ op = "idle"
    /\ IsInput(variant)
    /\ passed = FALSE
    /\ fdlist = <<>>
    /\ swapfn = Identity
    /\ heap = Lists(<<>>)
    /\ retlist = "none"
    /\ sent = NoValue
    /\ result = NoValue
    /\ calls = <<>>
    /\ visited = <<>>
    /\ built = 0
    /\ hint = NoHint
    /\ dbus = NoDBus

Next ==
    \/ \E f \in [Handles -> Handles] : Apply(f)
    \/ \E list \in FdLists : ReplaceHandles(TRUE, list)
    \/ ReplaceHandles(FALSE, <<>>)
    \/ ReplaceIndicesBack
    \/ \E list \in FdLists : ReplaceIndices(list)
    \/ Unpack
    \/ Unwrap

Spec == Init /\ [][Next]_vars

TypeInit ==
    /\ op = "idle"
    /\ variant = NoValue
    /\ passed = FALSE
    /\ fdlist = <<>>
    /\ swapfn = Identity
    /\ heap = Lists(<<>>)
    /\ retlist = "none"
    /\ sent = NoValue
    /\ result = NoValue
    /\ calls = <<>>
    /\ visited = <<>>
    /\ built = 0
    /\ IsHint(hint)
    /\ dbus = NoDBus

TypeNext == GetDbusType

TypeSpec == TypeInit /\ [][TypeNext]_vars

(***************************************************************************)
(* Reference notions used by the properties.                               *)
(***************************************************************************)
IsDict(v) == StartsWith(v.sig, <<"a", "{">>)
IsWrapper(v) == v.tag = "variant" /\ v.sig = <<"v">>
NoHandleNoWrapper(sig) == \A i \in DOMAIN sig : sig[i] \notin {"h", "v"}
Swapping == {"swapped", "out", "in"}

RECURSIVE HandleLeaves(_), HandleLeavesAll(_)
\* the handle values of a variant, depth first, left to right
HandleLeaves(v) ==
    IF v.sig = <<"h">> THEN <<v.val>> ELSE HandleLeavesAll(v.kids)
HandleLeavesAll(kids) ==
    IF kids = <<>> THEN <<>>
    ELSE HandleLeaves(Head(kids)) \o HandleLeavesAll(Tail(kids))

RECURSIVE MapHandles(_, _)
\* the variant with f applied to every handle leaf and nothing else changed
MapHandles(v, f) ==
    IF v.sig = <<"h">> THEN [v EXCEPT !.val = f[v.val]]
    ELSE [v EXCEPT !.kids = [i \in DOMAIN v.kids |-> MapHandles(v.kids[i], f)]]

KeyImage(k, f) == IF k.sig = <<"h">> THEN f[k.val] ELSE k.val

RECURSIVE NoKeyClash(_, _)
\* no dictionary of v has two entries whose keys are equal after f
NoKeyClash(v, f) ==
    /\ IsDict(v) =>
         \A i, j \in DOMAIN v.kids :
            i # j => KeyImage(v.kids[i].kids[1], f) # KeyImage(v.kids[j].kids[1], f)
    /\ \A i \in DOMAIN v.kids : NoKeyClash(v.kids[i], f)

DistinctKeys(v) == NoKeyClash(v, Identity)

RECURSIVE Paths(_)
Paths(v) ==
    {<<>>} \cup UNION {{<<i>> \o q : q \in Paths(v.kids[i])} : i \in DOMAIN v.kids}

RECURSIVE NodeAt(_, _)
NodeAt(v, p) == IF p = <<>> THEN v ELSE NodeAt(v.kids[Head(p)], Tail(p))

IsPrefix(p, q) == Len(p) <= Len(q) /\ SubSeq(q, 1, Len(p)) = p
Parent(p) == SubSeq(p, 1, Len(p) - 1)
Visited == {visited[i] : i \in DOMAIN visited}

\* the paths _process_variant is given when it handles the node at p
Processed(v, p) ==
    LET n == NodeAt(v, p)
    IN  IF IsDict(n)
        THEN {p \o <<i, k>> : i \in DOMAIN n.kids, k \in {1, 2}}
        ELSE IF n.sig[1] \in {"(", "a"} THEN {Append(p, i) : i \in DOMAIN n.kids}
        ELSE {}

RECURSIVE WrapLayers(_)
WrapLayers(v) == IF IsWrapper(v) THEN 1 + WrapLayers(v.kids[1]) ELSE 0

RECURSIVE IsNative(_)
\* a native value without any Variant object in it
IsNative(x) ==
    /\ x.tag \in {"val", "tuple", "list", "dict", "pair"}
    /\ \A i \in DOMAIN x.kids : IsNative(x.kids[i])

LastWith(v, key) ==
    CHOOSE i \in DOMAIN v.kids :
        /\ PyVal(v.kids[i].kids[1].val) = key
        /\ \A j \in DOMAIN v.kids : PyVal(v.kids[j].kids[1].val) = key => j <= i

RECURSIVE Decoded(_, _)
\* x is the full decoding of the variant v
Decoded(v, x) ==
    IF v.sig[1] = "("
    THEN /\ x.tag = "tuple"
         /\ Len(x.kids) = Len(v.kids)
         /\ \A i \in DOMAIN v.kids : Decoded(v.kids[i], x.kids[i])
    ELSE IF IsDict(v)
    THEN /\ x.tag = "dict"
         /\ \A i, j \in DOMAIN x.kids : i # j => x.kids[i].kids[1] # x.kids[j].kids[1]
         /\ {x.kids[j].kids[1] : j \in DOMAIN x.kids}
              = {PyVal(v.kids[i].kids[1].val) : i \in DOMAIN v.kids}
         /\ \A j \in DOMAIN x.kids :
              Decoded(v.kids[LastWith(v, x.kids[j].kids[1])].kids[2], x.kids[j].kids[2])
    ELSE IF v.sig[1] = "a"
    THEN /\ x.tag = "list"
         /\ Len(x.kids) = Len(v.kids)
         /\ \A i \in DOMAIN v.kids : Decoded(v.kids[i], x.kids[i])
    ELSE IF v.sig[1] = "v" THEN Decoded(v.kids[1], x)
    ELSE x = PyVal(v.val)

RECURSIVE SameShape(_, _)
SameShape(v, r) ==
    /\ Len(r.kids) = Len(v.kids)
    /\ \A i \in DOMAIN v.kids : SameShape(v.kids[i], r.kids[i])

\* the substitution the last swapping call applied to a handle
Subst == IF op = "in" THEN [h \in Handles |-> IF h + 1 \in DOMAIN fdlist
                                               THEN fdlist[h + 1] ELSE 0]
         ELSE swapfn

LastImage(v, f, key) ==
    CHOOSE i \in DOMAIN v.kids :
        /\ KeyImage(v.kids[i].kids[1], f) = key
        /\ \A j \in DOMAIN v.kids : KeyImage(v.kids[j].kids[1], f) = key => j <= i

RECURSIVE ShapeUpToKeys(_, _, _)
\* r has the shape of v, but a rebuilt dictionary has one entry for each
\* distinct substituted key
ShapeUpToKeys(v, r, f) ==
    IF r.ref # <<>> THEN Plain(r) = v
    ELSE IF IsDict(v)
    THEN /\ Len(r.kids) = Cardinality({KeyImage(v.kids[i].kids[1], f) : i \in DOMAIN v.kids})
         /\ \A j \in DOMAIN r.kids :
              ShapeUpToKeys(v.kids[LastImage(v, f, r.kids[j].kids[1].val)].kids[2],
                            r.kids[j].kids[2], f)
    ELSE /\ Len(r.kids) = Len(v.kids)
         /\ \A i \in DOMAIN v.kids : ShapeUpToKeys(v.kids[i], r.kids[i], f)

(***************************************************************************)
(* C1: outbound then inbound substitution with the produced list gives     *)
(* back every leaf of v, and v, w and u have the same signature.           *)
(***************************************************************************)
RoundTripExact ==
    op = "back" =>
        /\ Plain(result) = variant
        /\ sent.sig = variant.sig
        /\ result.sig = variant.sig

\* C1 as amended: the signatures always agree, the inbound call never
\* fails, and every leaf is given back when no dictionary of v has two
\* entries with the same key.
RoundTripDistinctKeys ==
    /\ op = "back" =>
        /\ sent.sig = variant.sig
        /\ result.sig = variant.sig
        /\ DistinctKeys(variant) => Plain(result) = variant
    /\ op = "raised" => retlist = "none"

RoundTripWitness ==
    /\ op = "back"
    /\ DistinctKeys(variant)
    /\ variant.sig[1] = "("
    /\ Len(HandleLeaves(variant)) = 2
    /\ fdlist # <<>>
    /\ Plain(sent) # variant

(***************************************************************************)
(* C2: a variant whose signature has neither 'h' nor 'v' is returned as    *)
(* the same object: no swap call, no new variant, no change of the list.   *)
(***************************************************************************)
ShortCircuit ==
    (op \in Swapping /\ NoHandleNoWrapper(variant.sig)) =>
        /\ result = Label(variant, <<>>)
        /\ calls = <<>>
        /\ built = 0
        /\ visited = <<>>
        /\ op = "out" => heap = Lists(fdlist)

ShortCircuitWitness ==
    /\ op = "out"
    /\ NoHandleNoWrapper(variant.sig)
    /\ fdlist # <<>>
    /\ \E i \in DOMAIN variant.kids : variant.kids[i].kids # <<>>

(***************************************************************************)
(* C3: every tuple, array or dictionary node whose signature has neither   *)
(* 'h' nor 'v' is left alone: none of its children is visited.             *)
(***************************************************************************)
SkipsEveryComposite ==
    op \in Swapping =>
        \A p \in Paths(variant) :
            LET n == NodeAt(variant, p)
            IN  (n.sig[1] \in {"(", "a"} /\ NoHandleNoWrapper(n.sig)) =>
                    \A q \in Visited : ~(IsPrefix(p, q) /\ q # p)

\* C3 as amended: the signature is tested for the top-level variant and for
\* the inner variant of a wrapper; such a node without 'h' and 'v' is not
\* visited, nor is anything below it.  A tuple, array or dictionary that is
\* visited has all its children visited, whatever their signatures.
SkipsAtRecreate ==
    op \in Swapping =>
        /\ \A p \in Paths(variant) :
              (/\ p = <<>> \/ IsWrapper(NodeAt(variant, Parent(p)))
               /\ NoHandleNoWrapper(NodeAt(variant, p).sig))
              => \A q \in Visited : ~IsPrefix(p, q)
        /\ \A p \in Visited : Processed(variant, p) \subseteq Visited

SkipsAtRecreateWitness ==
    /\ op = "swapped"
    /\ IsWrapper(variant)
    /\ NoHandleNoWrapper(variant.kids[1].sig)
    /\ variant.kids[1].kids # <<>>
    /\ built = 1
    /\ result.kids[1] = Label(variant, <<>>).kids[1]

(***************************************************************************)
(* C4: apply(v, f) has the signature of v, f applied to every handle leaf, *)
(* every other leaf unchanged, and f is called once for each handle leaf   *)
(* in depth-first, left-to-right order.                                    *)
(***************************************************************************)
RewritesEveryLeaf ==
    op = "swapped" =>
        /\ Plain(result) = MapHandles(variant, swapfn)
        /\ calls = HandleLeaves(variant)

\* C4 as amended: the signature and the calls are as claimed; the leaves
\* are as claimed when no dictionary of v has two entries whose keys are
\* equal after the substitution.
RewritesLeavesUnlessKeysClash ==
    op = "swapped" =>
        /\ result.sig = variant.sig
        /\ calls = HandleLeaves(variant)
        /\ NoKeyClash(variant, swapfn) => Plain(result) = MapHandles(variant, swapfn)

RewritesWitness ==
    /\ op = "swapped"
    /\ NoKeyClash(variant, swapfn)
    /\ WrapLayers(variant) = 2
    /\ swapfn # Identity
    /\ Plain(result) # variant

(***************************************************************************)
(* C5: the outbound wrapper adds the handles to the list it is given, and  *)
(* returns that list.                                                      *)
(***************************************************************************)
AddsToCallersList ==
    (op = "out" /\ passed) =>
        /\ retlist = "caller"
        /\ heap.caller = fdlist \o HandleLeaves(variant)

(***************************************************************************)
(* C6: unwrap_variant strips one wrapper and returns the child variant;    *)
(* the unpacker leaves no wrapper; without wrappers the two agree.         *)
(***************************************************************************)
UnwrapStripsOneLayer ==
    /\ (op = "unwrapped" /\ IsWrapper(variant)) =>
          /\ result = Label(variant, <<>>).kids[1]
          /\ WrapLayers(result) = WrapLayers(variant) - 1
    /\ op = "unpacked" => IsNative(result)
    /\ (op = "unwrapped" /\ ~Contains(variant.sig, "v")) =>
          /\ IsNative(result)
          /\ result = VariantUnpackerApply(Label(variant, <<>>)).val

UnwrapWitness ==
    /\ op = "unwrapped"
    /\ WrapLayers(variant) = 2
    /\ IsWrapper(result)

(***************************************************************************)
(* C9: 'a{' is decoded as a dictionary with one entry for each distinct    *)
(* key, holding the value of the last entry with that key; tuples and      *)
(* arrays are decoded child by child.                                      *)
(***************************************************************************)
DecodesLastEntry == op = "unpacked" => Decoded(variant, result)

DecodesWitness ==
    /\ op = "unpacked"
    /\ IsDict(variant)
    /\ Len(variant.kids) = 2
    /\ variant.kids[1].kids[1] = variant.kids[2].kids[1]
    /\ variant.kids[1].kids[2] # variant.kids[2].kids[2]
    /\ Len(result.kids) = 1

(***************************************************************************)
(* C10: every composite of apply(v, f) has as many children as the node    *)
(* of v it comes from.                                                     *)
(***************************************************************************)
ShapePreserved ==
    op \in {"swapped", "in"} => SameShape(variant, result)

\* C10 as amended: tuples and arrays keep their length; a rebuilt
\* dictionary has one entry for each distinct substituted key, so it keeps
\* its length exactly when those keys are pairwise distinct.
ShapePreservedUpToKeys ==
    op \in {"swapped", "in"} => ShapeUpToKeys(variant, result, Subst)

ShapeWitness ==
    /\ op = "in"
    /\ fdlist = <<0, 0>>
    /\ variant.sig = <<"a", "{", "h", "s", "}">>
    /\ Len(variant.kids) = 2
    /\ Len(result.kids) = 1

(***************************************************************************)
(* The reference grammar of signatures.                                    *)
(***************************************************************************)
ScalarCode(name) ==
    CASE name = "Bool" -> "b" [] name = "Str" -> "s" [] name = "Double" -> "d"
      [] name = "Int" -> "i" [] name = "Byte" -> "y" [] name = "Int16" -> "n"
      [] name = "UInt16" -> "q" [] name = "Int32" -> "i" [] name = "UInt32" -> "u"
      [] name = "Int64" -> "x" [] name = "UInt64" -> "t" [] name = "UnixFD" -> "h"
      [] name = "ObjPath" -> "o" [] name = "Variant" -> "v"

Scalars == {"Bool", "Str", "Double", "Int", "Byte", "Int16", "UInt16", "Int32",
            "UInt32", "Int64", "UInt64", "UnixFD", "ObjPath", "Variant"}
Composites == {"Tuple", "List", "Dict"}

RECURSIVE Grammar(_)
Grammar(h) ==
    IF h.tag = "Tuple"
    THEN <<"(">> \o Concat([i \in DOMAIN h.kids |-> Grammar(h.kids[i])]) \o <<")">>
    ELSE IF h.tag = "List" THEN <<"a">> \o Grammar(h.kids[1])
    ELSE IF h.tag = "Dict"
    THEN <<"a", "{">> \o Grammar(h.kids[1]) \o Grammar(h.kids[2]) \o <<"}">>
    ELSE <<ScalarCode(h.tag)>>

RECURSIVE Unsupported(_)
\* the hint holds, at some depth, a hint that is no scalar and no composite,
\* or a dictionary whose key is a composite or Variant
Unsupported(h) ==
    \/ h.tag \notin Scalars \cup Composites
    \/ h.tag = "Dict" /\ h.kids[1].tag \in Composites \cup {"Variant"}
    \/ \E i \in DOMAIN h.kids : Unsupported(h.kids[i])

(***************************************************************************)
(* C7: get_dbus_type gives the signature of the reference grammar for      *)
(* every hint built from the 14 scalars and Tuple, List, Dict with valid   *)
(* keys.                                                                   *)
(***************************************************************************)
CompilesToGrammar ==
    (dbus.done /\ ~Unsupported(hint)) =>
        /\ ~dbus.raised
        /\ dbus.sig = Grammar(hint)

CompilesWitness ==
    /\ dbus.done
    /\ ~Unsupported(hint)
    /\ hint.tag = "Dict"
    /\ hint.kids[2].tag = "List"
    /\ dbus.sig = <<"a", "{", "s", "a", "s", "}">>

====
